---- MODULE Spec2Model ----
(***************************************************************************)
(* attestation_performance(cursor, slot) of chaindtools.py: the minimum    *)
(* inclusion distance of every validator of a slot's committees, or -1.    *)
(*                                                                         *)
(* The store behind `cursor` is the environment.  The committees of the    *)
(* slot are fixed by Init; the rows of t_attestations are handed to the    *)
(* loop one at a time, in ascending f_inclusion_slot order, and the row    *)
(* the loop body is working on is the variable `attestation`.              *)
(***************************************************************************)
EXTENDS Integers, Sequences, FiniteSets, TLC

\* ---- bounds of the model ------------------------------------------------
MaxCommittees == 2
MaxValidators == 2
MaxAttestations == 2
MaxDistance == 1
MaxWideSize == 9

\* bits of one byte, as bitlist(bytes) expands them
BitsPerByte == 8

VARIABLES
    slot,                   \* the slot argument
    committee_lookup,       \* list of committees (lists of validator indices)
    num_attestations,       \* len(attestations)
    fetched,                \* rows of `attestations` the loop has taken so far
    attestation,            \* the row the loop body took last
    aggregation_bits,       \* the decoded bits of the last row recorded
    committee_performance,  \* table, one cell per (committee, position)
    covering,               \* history: per cell, the distances of the rows on
                            \* canonical blocks whose decoded bit is set there
    pc,                     \* "loop", "done" (returned) or "failed" (raised)
    result                  \* the returned dict

vars == << slot, committee_lookup, num_attestations, fetched, attestation,
           aggregation_bits, committee_performance, covering, pc, result >>

\* ---- the store ----------------------------------------------------------
\* Block roots the rows refer to: one with a canonical block, one with a
\* block off the canonical chain (orphaned), one with no row in t_blocks.
Roots == {"canonical", "orphaned", "unknown"}

\* cursor.fetchone() after SELECT f_canonical FROM t_blocks WHERE f_root = root:
\* the row as a tuple, or None (the empty tuple here; both are falsy).
t_blocks(root) ==
    IF root = "canonical" THEN << TRUE >>
    ELSE IF root = "orphaned" THEN << FALSE >>
    ELSE << >>

\* Python truth value of what fetchone() returned: None is false, a row
\* (a non-empty tuple) is true whatever it holds.
TruthyFlag(row) == Len(row) > 0 /\ row[1]
Truthy(row) == Len(row) > 0

\* The block of this root is part of the canonical chain.
IsCanonical(root) == t_blocks(root) = << TRUE >>

\* ---- the packed bit-vector ---------------------------------------------
Bit == {0, 1}
BitSeqs(n) == [1..n -> Bit]

Min(a, b) == IF a < b THEN a ELSE b

RECURSIVE Pow2(_)
Pow2(k) == IF k = 0 THEN 1 ELSE 2 * Pow2(k - 1)

\* The serialization of the logical bits b: the bits, one delimiter bit, zero
\* padding up to a whole byte; bit i of the stream is bit (i mod 8) of byte
\* (i div 8), least significant first.
Stream(b) == b \o << 1 >>
PackedLen(b) == (Len(b) \div BitsPerByte) + 1
StreamBit(b, i) == IF i <= Len(b) + 1 THEN Stream(b)[i] ELSE 0
RECURSIVE ByteValue(_, _, _)
ByteValue(b, j, i) ==
    IF i = BitsPerByte THEN 0
    ELSE StreamBit(b, BitsPerByte * (j - 1) + i + 1) * Pow2(i) + ByteValue(b, j, i + 1)
Pack(b) == [j \in 1..PackedLen(b) |-> ByteValue(b, j, 0)]

\* The first n logical bits a serialized vector holds.
LogicalBits(bytes, n) ==
    [i \in 1..n |->
        (bytes[((i - 1) \div BitsPerByte) + 1] \div Pow2((i - 1) % BitsPerByte)) % 2]

\* A stored vector that lost its last byte.
Truncate(bytes) == SubSeq(bytes, 1, Len(bytes) - 1)

\* bytes[::-1]
Reverse(s) == [i \in 1..Len(s) |-> s[Len(s) + 1 - i]]

\* bitlist(bytes): eight bits per byte, most significant first, bytes in order.
BitlistLsbFirst(bytes) ==
    [i \in 1..(BitsPerByte * Len(bytes)) |->
        (bytes[((i - 1) \div BitsPerByte) + 1] \div Pow2((i - 1) % BitsPerByte)) % 2]
Bitlist(bytes) ==
    [i \in 1..(BitsPerByte * Len(bytes)) |->
        (bytes[((i - 1) \div BitsPerByte) + 1]
            \div Pow2(BitsPerByte - 1 - ((i - 1) % BitsPerByte))) % 2]

\* s[:-(n+1):-1]: the last n elements of s, last first; all of s, reversed,
\* when s has fewer than n.
SliceLastReversed(s, n) == [j \in 1..Min(n, Len(s)) |-> s[Len(s) + 1 - j]]

\* bitlist(attestation[2].tobytes()[::-1])[:-(committee_size+1):-1]
Decode(bytes, committee_size) ==
    SliceLastReversed(Bitlist(Reverse(bytes)), committee_size)

\* ---- list indexing -------------------------------------------------------
\* committee_lookup[i] of Python: a negative i counts from the end; an i
\* outside -len..len-1 raises IndexError.  PyIndex is the 1-based position.
IndexInRangeNonNegative(i, len) == 0 <= i /\ i < len
IndexInRange(i, len) == -len <= i /\ i < len
PyIndex(i, len) == IF i < 0 THEN i + len + 1 ELSE i + 1

\* ---- the table -----------------------------------------------------------
\* [[-1] * len(committee) for each committee]
InitialPerformance(lookup) ==
    [c \in 1..Len(lookup) |-> [p \in 1..Len(lookup[c]) |-> -1]]

\* lines 35-37 on one committee's row of the table
RecordOverwriting(cells, bits, inclusion_distance) ==
    [p \in 1..Len(cells) |->
        IF p <= Len(bits) /\ bits[p] = 1 THEN inclusion_distance ELSE cells[p]]
Record(cells, bits, inclusion_distance) ==
    [p \in 1..Len(cells) |->
        IF p <= Len(bits) /\ bits[p] = 1 /\ cells[p] = -1
        THEN inclusion_distance ELSE cells[p]]

\* [x for committee in table for x in committee]
RECURSIVE Flatten(_)
Flatten(table) ==
    IF Len(table) = 0 THEN << >> ELSE Head(table) \o Flatten(Tail(table))

\* dict(zip(keys, values)): a later pair with the same key replaces an
\* earlier one.
LastAt(keys, k) == CHOOSE i \in 1..Len(keys) :
    keys[i] = k /\ \A j \in 1..Len(keys) : keys[j] = k => j <= i
DictZipFirstCommittee(keys, values) ==
    [k \in {keys[i] : i \in 1..Min(Len(keys), 1)} |-> values[LastAt(keys, k)]]
DictZip(keys, values) ==
    [k \in {keys[i] : i \in 1..Min(Len(keys), Len(values))} |-> values[LastAt(keys, k)]]

\* ---- what the store can return -------------------------------------------
\* The slot asked for.
Slots == {3}

\* The validator at place k of the slot's shuffling: each validator sits in
\* one committee of a slot, so the identifiers of a slot are distinct.
ValidatorAt(k) == 2 * k + 5

RECURSIVE Sum(_)
Sum(sizes) == IF Len(sizes) = 0 THEN 0 ELSE Head(sizes) + Sum(Tail(sizes))

SeqsUpTo(S, n) == UNION {[1..k -> S] : k \in 0..n}

\* The committees of a slot with the given sizes.
Committees(sizes) ==
    [c \in 1..Len(sizes) |->
        [p \in 1..sizes[c] |-> ValidatorAt(Sum(SubSeq(sizes, 1, c - 1)) + p)]]

\* Up to MaxCommittees committees of up to MaxValidators validators together.
Lookups ==
    {Committees(sizes) :
        sizes \in {z \in SeqsUpTo(0..MaxValidators, MaxCommittees) :
                     Sum(z) <= MaxValidators}}

\* A single large committee.
WideLookups == {Committees(<< n >>) : n \in 1..MaxWideSize}

\* The serialized bit lists of every length, and those that lost a byte.
Packed == [n \in 0..MaxWideSize |-> {Pack(b) : b \in BitSeqs(n)}]
Truncated == [n \in 0..MaxWideSize |->
                {Truncate(v) : v \in {w \in Packed[n] : Len(w) > 1}}]

\* The committee indices of a slot's rows: those of the slot's committees, one
\* below and one above.
Indices(lookup) == (-1)..Len(lookup)

\* The inclusion slots of a slot's rows, from the previous row's on
\* (ORDER BY f_inclusion_slot).
InclusionSlots(s, previous) ==
    {t \in (s + 1)..(s + 1 + MaxDistance) : t >= previous}

\* The packed vectors of a row: the serialized bits of the members of the
\* committee it names, whole or with the last byte lost; of no members when it
\* names none.
Vectors(lookup, index) ==
    IF IndexInRange(index, Len(lookup))
    THEN LET n == Len(lookup[PyIndex(index, Len(lookup))])
         IN Packed[n] \cup Truncated[n]
    ELSE Packed[0]

Row(index, t, bytes, root) ==
    [committee_index |-> index, inclusion_slot |-> t,
     aggregation_bits |-> bytes, beacon_block_root |-> root]

NoAttestation == Row(0, 0, << >>, "unknown")

\* ---- the program ---------------------------------------------------------
InitWith(lookups, counts) ==
    /\ slot \in Slots
    /\ committee_lookup \in lookups
    /\ num_attestations \in counts
    /\ fetched = 0
    /\ attestation = NoAttestation
    /\ aggregation_bits = << >>
    /\ committee_performance = InitialPerformance(committee_lookup)
    /\ covering = [c \in 1..Len(committee_lookup) |->
                      [p \in 1..Len(committee_lookup[c]) |-> {}]]
    /\ pc = "loop"
    /\ result = << >>

Init == InitWith(Lookups, 0..MaxAttestations)

InitWide == InitWith(WideLookups, {1})

\* The loop takes the next row.
Take(a) ==
    /\ fetched' = fetched + 1
    /\ attestation' = a
    /\ UNCHANGED << slot, committee_lookup, num_attestations, result >>

\* lines 22-25: no row for the block root, continue
Skips(root) == ~Truthy(t_blocks(root))

\* lines 26-27: committee_lookup[committee_index] raises IndexError
RaisesBeforeFilter(root, index, lookup) == ~IndexInRange(index, Len(lookup))
Raises(root, index, lookup) == ~Skips(root) /\ ~IndexInRange(index, Len(lookup))

Skip ==
    /\ pc = "loop"
    /\ fetched < num_attestations
    /\ \E root \in Roots, index \in Indices(committee_lookup) :
        /\ Skips(root)
        /\ ~Raises(root, index, committee_lookup)
        /\ \E t \in InclusionSlots(slot, attestation.inclusion_slot),
              bytes \in Vectors(committee_lookup, index) :
                Take(Row(index, t, bytes, root))
        /\ UNCHANGED << aggregation_bits, committee_performance, covering, pc >>

Fail ==
    /\ pc = "loop"
    /\ fetched < num_attestations
    /\ \E root \in Roots, index \in Indices(committee_lookup) :
        /\ Raises(root, index, committee_lookup)
        /\ \E t \in InclusionSlots(slot, attestation.inclusion_slot),
              bytes \in Vectors(committee_lookup, index) :
                Take(Row(index, t, bytes, root))
        /\ pc' = "failed"
        /\ UNCHANGED << aggregation_bits, committee_performance, covering >>

\* lines 26-37
RecordAttestation ==
    /\ pc = "loop"
    /\ fetched < num_attestations
    /\ \E root \in Roots, index \in Indices(committee_lookup) :
        /\ ~Skips(root)
        /\ ~Raises(root, index, committee_lookup)
        /\ \E t \in InclusionSlots(slot, attestation.inclusion_slot),
              bytes \in Vectors(committee_lookup, index) :
            LET c == PyIndex(index, Len(committee_lookup))
                committee_size == Len(committee_lookup[c])
                inclusion_distance == t - slot - 1
                bits == Decode(bytes, committee_size)
            IN /\ Take(Row(index, t, bytes, root))
               /\ aggregation_bits' = bits
               /\ committee_performance' =
                    [committee_performance EXCEPT
                        ![c] = Record(@, bits, inclusion_distance)]
               /\ covering' =
                    IF IsCanonical(root)
                    THEN [covering EXCEPT ![c] =
                            [p \in 1..committee_size |->
                                IF p <= Len(bits) /\ bits[p] = 1
                                THEN @[p] \cup {inclusion_distance} ELSE @[p]]]
                    ELSE covering
        /\ UNCHANGED pc

\* lines 39-43
Return ==
    /\ pc = "loop"
    /\ fetched = num_attestations
    /\ result' = DictZip(Flatten(committee_lookup), Flatten(committee_performance))
    /\ pc' = "done"
    /\ UNCHANGED << slot, committee_lookup, num_attestations, fetched, attestation,
                    aggregation_bits, committee_performance, covering >>

Next == Skip \/ Fail \/ RecordAttestation \/ Return

Spec == Init /\ [][Next]_vars

SpecWide == InitWide /\ [][Next]_vars

\* ---- properties ----------------------------------------------------------
Cells == {<< c, p >> \in (1..MaxCommittees) \X (1..MaxWideSize) :
            c <= Len(committee_lookup) /\ p <= Len(committee_lookup[c])}

MinOf(S) == CHOOSE x \in S : \A y \in S : x <= y

\* the last row taken
Taken == fetched > 0
HasBlockRow == t_blocks(attestation.beacon_block_root) # << >>
NamesCommittee ==
    IndexInRangeNonNegative(attestation.committee_index, Len(committee_lookup))
InclusionDistance == attestation.inclusion_slot - slot - 1

\* C1: once the call has returned, every validator covered by at least one
\* canonical attestation (decoded bit set at its committee position) has the
\* minimum of inclusion_slot - slot - 1 over those attestations as its value.
C1_MinimumOverCanonical ==
    pc = "done" =>
        \A cell \in Cells :
            covering[cell[1]][cell[2]] # {} =>
                result[committee_lookup[cell[1]][cell[2]]]
                    = MinOf(covering[cell[1]][cell[2]])

\* C2: processing an attestation whose block root is not canonical leaves
\* every cell of the performance table unchanged.
C2_NonCanonicalNoEffect ==
    [][(fetched' = fetched + 1 /\ ~IsCanonical(attestation'.beacon_block_root))
        => committee_performance' = committee_performance]_vars

\* C3: once the call has returned, every validator that no canonical
\* attestation covers has the value -1.
C3_UncoveredIsMissed ==
    pc = "done" =>
        \A cell \in Cells :
            covering[cell[1]][cell[2]] = {} =>
                result[committee_lookup[cell[1]][cell[2]]] = -1

C5_DecodeOrderCorrect ==
    (Taken /\ HasBlockRow /\ pc # "failed"
        /\ IndexInRange(attestation.committee_index, Len(committee_lookup))) =>
        LET n == Len(committee_lookup[PyIndex(attestation.committee_index,
                                              Len(committee_lookup))])
            bytes == attestation.aggregation_bits
        IN (Len(bytes) = (n \div BitsPerByte) + 1
                /\ Pack(LogicalBits(bytes, n)) = bytes) =>
            /\ Len(aggregation_bits) = n
            /\ aggregation_bits = LogicalBits(bytes, n)

\* a committee of eight, only position 0 set: the delimiter fills a byte of
\* its own
C5_Witness ==
    /\ Taken /\ HasBlockRow /\ NamesCommittee
    /\ Len(committee_lookup[1]) = BitsPerByte
    /\ attestation.aggregation_bits = << 1, 1 >>
    /\ aggregation_bits = [p \in 1..BitsPerByte |-> IF p = 1 THEN 1 ELSE 0]

\* C6: an attestation that passes the filter and whose vector holds fewer
\* bits than its committee has members makes the call fail.
C6_ShortVectorFails ==
    (Taken /\ HasBlockRow /\ NamesCommittee
        /\ BitsPerByte * Len(attestation.aggregation_bits)
             < Len(committee_lookup[attestation.committee_index + 1]))
    => pc = "failed"

\* C7: an attestation that passes the filter and whose committee index is
\* outside 0..number_of_committees-1 makes the call fail.
C7_UnknownCommitteeFails ==
    (Taken /\ HasBlockRow /\ ~NamesCommittee) => pc = "failed"

\* C8: no mapping is returned unless the call completes, and the mapping
\* returned has exactly one entry per validator of the committees, each -1 or
\* a non-negative integer.
C8_CompleteOrNothing ==
    /\ pc # "done" => result = << >>
    /\ pc = "done" =>
        /\ DOMAIN result = {committee_lookup[cell[1]][cell[2]] : cell \in Cells}
        /\ Cardinality(DOMAIN result) = Len(Flatten(committee_lookup))
        /\ \A v \in DOMAIN result : result[v] = -1 \/ result[v] >= 0

C8_Witness ==
    /\ pc = "done"
    /\ Cardinality(DOMAIN result) = MaxValidators
    /\ \E v \in DOMAIN result : result[v] = -1
    /\ \E v \in DOMAIN result : result[v] >= 0

\* C9: the table starts with -1 in one cell per (committee, position) pair;
\* a step keeps its shape and changes a cell only from -1 to a non-negative
\* inclusion distance.
C9_CellsOnlyFilledOnce ==
    /\ committee_performance = InitialPerformance(committee_lookup)
    /\ [][/\ DOMAIN committee_performance' = DOMAIN committee_performance
          /\ \A c \in DOMAIN committee_performance :
                /\ DOMAIN committee_performance'[c] = DOMAIN committee_lookup[c]
                /\ \A p \in DOMAIN committee_performance[c] :
                    committee_performance'[c][p] # committee_performance[c][p] =>
                        /\ committee_performance[c][p] = -1
                        /\ committee_performance'[c][p] >= 0]_vars

\* a later attestation covers a cell that already holds a smaller distance
C9_Witness ==
    /\ Taken /\ HasBlockRow /\ NamesCommittee /\ pc = "loop"
    /\ \E p \in 1..Len(aggregation_bits) :
        /\ aggregation_bits[p] = 1
        /\ committee_performance[attestation.committee_index + 1][p] >= 0
        /\ committee_performance[attestation.committee_index + 1][p] < InclusionDistance

\* C10: an attestation the filter skips never makes the call fail, whatever
\* its committee index and its vector.
C10_SkippedNeverFails ==
    (Taken /\ ~HasBlockRow) => pc # "failed"

C10_Witness ==
    /\ Taken /\ ~HasBlockRow /\ pc # "failed"
    /\ ~IndexInRange(attestation.committee_index, Len(committee_lookup))

====
